---- MODULE Spec2Model ----
(***************************************************************************)
(* Model of the Bingosync client (src/src/lib/bingosync.ts, lines 1-416):  *)
(* joinRoom / disconnect, the periodic full update, the websocket created  *)
(* by _createWebsocket with its three handlers, the socket-key cache and   *)
(* the auth-retry loop.  Every action is one run-to-completion step of the *)
(* JavaScript event loop: the code between two suspension points (await,   *)
(* timer callback, transport event).                                       *)
(***************************************************************************)
EXTENDS Integers, Sequences, FiniteSets, Bags, TLC

VARIABLES
    mode,         \* what the environment does in this exploration, and how far it goes (never changes)
    status,       \* Bingosync.status
    statusLog,    \* status-changed payloads heard by the caller of the latest joinRoom call until it settles (kept when mode.log, saturates at MaxLog)
    emitted,      \* number of board-changed events emitted by the latest step
    dropped,      \* whether the latest step discarded the response of a full update as stale
    same,         \* whether the latest step found a snapshot deeply equal to boardState and left it (kept when mode.board)
    errored,      \* number of `error` events emitted by the latest step (no statement of the class emits one)
    roomParams,   \* Bingosync.roomParams (NoParams until the first commit)
    boardState,   \* Bingosync.boardState (NoBoard until the first full update)
    timers,       \* the interval timers that are running (named by the joinRoom call that started them)
    intervalRef,  \* Bingosync._fullUpdateInterval
    websocket,    \* Bingosync._websocket (0 is null)
    numAuth,      \* Bingosync._numSocketAuthAttempts
    store,        \* localStorage: the cached socket key of every room (for the one player name)
    calls,        \* the joinRoom calls: where each is suspended, and how it settled
    socks,        \* every WebSocket object created so far, with the closure of its _createWebsocket call
    handlers,     \* bag of the onmessage invocations suspended in `await getNewSocketKey(...)`
    tfetch,       \* rooms for which a timer-driven _fullUpdate has its GET in flight
    nextTok,      \* the socket key the site hands out next
    valid,        \* the socket keys the socket server accepts at the moment
    confirmed,    \* history: keys for which a non-error frame arrived in reply
    deadSends,    \* history: number of frames sent on a transport after its teardown (saturates at 1)
    note          \* what the latest step only told debug(): "" or the handler that ended there (kept when mode.board)

vars == <<mode, status, statusLog, emitted, dropped, same, errored, roomParams, boardState, timers,
          intervalRef, websocket, numAuth, store, calls, socks, handlers,
          tfetch, nextTok, valid, confirmed, deadSends, note>>

----------------------------------------------------------------------------
(* Bounds of the exploration *)
MaxJoins == 1
MaxSockets == 2
MaxTokens == 4
MaxLog == 5

(* Program constants *)
maxSocketAuthAttempts == 3

AllRooms == {"A", "B"}
Rooms == IF mode.data THEN AllRooms ELSE {"A"}
NoKey == 0
NoParams == [roomCode |-> "", passOk |-> FALSE]
NoBoard == [defined |-> FALSE, cells |-> <<>>]
PreIssued == 1

AuthFailText == "unable to authenticate, try refreshing"
Statuses == {"connecting", "connected", "disconnected", "error"}

----------------------------------------------------------------------------
(* Strings are sequences of characters; a word that holds no space is kept *)
(* as one symbol, so "red blue" is <<"red", " ", "blue">>.                 *)

Str(chars) == [kind |-> "str", chars |-> chars]
List(items) == [kind |-> "list", items |-> items]

ToLowerCase(word) ==
    CASE word = "BLANK" -> "blank"
      [] word = "Blank" -> "blank"
      [] OTHER -> word

RECURSIVE SplitRec(_, _, _)
SplitRec(chars, cur, acc) ==
    IF chars = <<>> THEN Append(acc, cur)
    ELSE IF Head(chars) = " " THEN SplitRec(Tail(chars), <<>>, Append(acc, cur))
    ELSE SplitRec(Tail(chars), Append(cur, Head(chars)), acc)

(* String.prototype.split(" "): the pieces between the spaces, empty ones included *)
Split(chars) == SplitRec(chars, <<>>, <<>>)

LowerTok(tok) == [i \in 1 .. Len(tok) |-> ToLowerCase(tok[i])]

RECURSIVE FilterBlank(_)
FilterBlank(toks) ==
    IF toks = <<>> THEN <<>>
    ELSE IF LowerTok(Head(toks)) = <<"blank">> THEN FilterBlank(Tail(toks))
    ELSE <<Head(toks)>> \o FilterBlank(Tail(toks))

ProcessRawCell(rawCell) ==
    [colors |-> List(FilterBlank(Split(rawCell.colors.chars))),
     slot |-> rawCell.slot,
     name |-> rawCell.name]

ProcessRawBoardState(raw) ==
    [defined |-> TRUE, cells |-> [i \in 1 .. Len(raw) |-> ProcessRawCell(raw[i])]]

(* fast-deep-equal on two board states *)
Equal(a, b) == a = b

Digit(ch) ==
    CASE ch = "0" -> 0 [] ch = "1" -> 1 [] ch = "2" -> 2 [] ch = "3" -> 3
      [] ch = "4" -> 4 [] ch = "5" -> 5 [] ch = "6" -> 6 [] ch = "7" -> 7
      [] ch = "8" -> 8 [] ch = "9" -> 9 [] OTHER -> -1

RECURSIVE ParseDigits(_, _)
ParseDigits(chars, acc) ==
    IF chars = <<>> \/ Digit(Head(chars)) < 0 THEN acc
    ELSE ParseDigits(Tail(chars), 10 * acc + Digit(Head(chars)))

(* parseInt(s, 10) of a string without sign or leading space; -1000 stands for NaN *)
NaN == -1000
ParseInt(chars) ==
    IF chars = <<>> \/ Digit(Head(chars)) < 0 THEN NaN ELSE ParseDigits(chars, 0)

Slice4(chars) == IF Len(chars) <= 4 THEN <<>> ELSE SubSeq(chars, 5, Len(chars))

SlotIndex(slot) ==
    LET n == ParseInt(Slice4(slot)) IN IF n = NaN THEN NaN ELSE n - 1

SlotId(digits) == <<"s", "l", "o", "t">> \o digits


Hole == [colors |-> Str(<<>>), slot |-> <<>>, name |-> "<empty>"]

(* cells[index] = square on a JavaScript array: an index past the end grows  *)
(* the array and leaves holes, a negative or NaN index only adds a property. *)
SetCell(cells, index, square) ==
    IF index < 0 THEN cells
    ELSE [i \in 1 .. (IF index + 1 > Len(cells) THEN index + 1 ELSE Len(cells)) |->
            IF i = index + 1 THEN square
            ELSE IF i <= Len(cells) THEN cells[i] ELSE Hole]

----------------------------------------------------------------------------
(* Data the environment can produce *)

OddColorStrings ==
    {<<>>, <<"Blank">>, <<"red", " ", "BLANK">>, <<"red", " ", " ", "blue">>,
     <<" ", "red">>, <<"red", " ">>}
RawColorStrings ==
    IF mode.rich THEN {<<"blank">>, <<"red">>} \cup OddColorStrings
    ELSE IF mode.data THEN {<<"blank">>, <<"red">>} ELSE {<<"blank">>}
RawCell(n, chars) == [colors |-> Str(chars), slot |-> SlotId(<<n>>), name |-> "goal"]
RawBoards == {<<RawCell("1", c)>> : c \in RawColorStrings}

OkFrame == [type |-> "made_up", error |-> "", square |-> Hole]
GoalFrame(sq) == [type |-> "goal", error |-> "", square |-> sq]
ErrorFrame(text) == [type |-> "error", error |-> text, square |-> Hole]
Malformed == [type |-> "<unparsable>", error |-> "", square |-> Hole]

DeltaSquares == {RawCell("1", <<"red">>), RawCell("2", <<"red">>)}
Deauthorize == ErrorFrame(AuthFailText)
ErrorPushes == {ErrorFrame("room closed"), ErrorFrame("")}
DataPushes ==
    {OkFrame, Malformed} \cup (IF mode.data THEN {GoalFrame(sq) : sq \in DeltaSquares} ELSE {})

----------------------------------------------------------------------------
(* The objects of the program *)

(* pc: where the call is; hit: its key came from the cache; acq: getNewSocketKey calls it made; *)
(* err: the message it rejected with; log: the status-changed payloads from its start to its settling; *)
(* settles: how often resolve() or reject() of the connect promise it awaits was invoked (2: more than once) *)
IdleCall == [pc |-> "idle", roomCode |-> "", passOk |-> FALSE, socketKey |-> NoKey,
             hit |-> FALSE, acq |-> 0, err |-> "", log |-> <<>>, settles |-> 0]

(* A WebSocket object with the closure of the _createWebsocket call that made it *)
NewSock(key, owner) ==
    [st |-> "opening", live |-> TRUE, socketKey |-> key, settled |-> FALSE,
     owner |-> owner, unanswered |-> <<>>, authed |-> FALSE]
DeadSock ==
    [st |-> "closed", live |-> FALSE, socketKey |-> NoKey, settled |-> TRUE,
     owner |-> 0, unanswered |-> <<>>, authed |-> FALSE]

(* The whole client state as one record, so that a handler is the composition of its statements *)
Cur ==
    [status |-> status, statusLog |-> statusLog, emitted |-> 0, dropped |-> FALSE,
     same |-> FALSE, errored |-> 0,
     roomParams |-> roomParams, boardState |-> boardState, timers |-> timers,
     intervalRef |-> intervalRef, websocket |-> websocket, numAuth |-> numAuth,
     store |-> store, calls |-> calls, socks |-> socks, handlers |-> handlers,
     tfetch |-> tfetch, nextTok |-> nextTok, confirmed |-> confirmed,
     deadSends |-> deadSends, note |-> ""]

Commit(s) ==
    /\ status' = s.status
    /\ statusLog' = s.statusLog
    /\ emitted' = s.emitted
    /\ dropped' = s.dropped
    /\ same' = s.same
    /\ errored' = s.errored
    /\ roomParams' = s.roomParams
    /\ boardState' = s.boardState
    /\ timers' = s.timers
    /\ intervalRef' = s.intervalRef
    /\ websocket' = s.websocket
    /\ numAuth' = s.numAuth
    /\ store' = s.store
    /\ calls' = s.calls
    /\ socks' = s.socks
    /\ handlers' = s.handlers
    /\ tfetch' = s.tfetch
    /\ nextTok' = s.nextTok
    /\ confirmed' = s.confirmed
    /\ deadSends' = s.deadSends
    /\ note' = s.note

(* debug(...) as the last thing a handler does *)
Debug(s, what) == [s EXCEPT !.note = IF mode.board THEN what ELSE @]

AppendCap(log, x) ==
    IF Len(log) >= MaxLog THEN log ELSE Append(log, x)

(* The promise of the latest joinRoom call has not settled: its caller is listening *)
Pending(s) ==
    \E c \in DOMAIN s.calls :
        /\ s.calls[c].pc \in {"start", "acquire", "fetch", "socket"}
        /\ \A d \in DOMAIN s.calls : d > c => s.calls[d].pc = "idle"

SetStatus(s, newStatus) ==
    [s EXCEPT !.status = newStatus,
              !.statusLog = IF mode.log /\ Pending(s) THEN AppendCap(@, newStatus) ELSE @]

ClearInterval(s) == [s EXCEPT !.timers = @ \ {s.intervalRef}]

DestroyWebsocket(s) ==
    IF s.websocket = 0 THEN s
    ELSE [s EXCEPT !.socks[s.websocket] = DeadSock, !.websocket = 0]

(* _destroyWebsocket with the outcome of close() spelled out: the handlers are replaced *)
(* first, an exception of close() is caught and discarded, and the reference is nulled  *)
(* either way; the object, no longer referenced by anything, is kept as DeadSock.       *)
DestroyWebsocketTry(s, closeThrows) ==
    IF s.websocket = 0 THEN s
    ELSE LET w == s.websocket
             detached == [s EXCEPT !.socks[w].live = FALSE]
             tried == IF closeThrows THEN detached
                      ELSE [detached EXCEPT !.socks[w].st = "closed"]
         IN [tried EXCEPT !.socks[w] = DeadSock, !.websocket = 0]

(* _createWebsocket without its _setStatus("connecting") *)
CreateWebsocketQuiet(s, key, owner) ==
    [s EXCEPT !.socks = Append(@, NewSock(key, owner)),
              !.websocket = Len(s.socks) + 1]

(* The synchronous part of _createWebsocket; owner is the joinRoom call that awaits the promise, 0 if none *)
CreateWebsocket(s, key, owner) ==
    LET s1 == SetStatus(s, "connecting")
    IN [s1 EXCEPT !.socks = Append(@, NewSock(key, owner)),
                  !.websocket = Len(s.socks) + 1]

(* WebSocket.send on object x: it reaches the server only if x is open *)
Send(s, x, tok) ==
    IF s.socks[x].st = "open"
    THEN [s EXCEPT !.socks[x].unanswered = Append(@, tok)]
    ELSE IF s.socks[x].st = "closed" THEN [s EXCEPT !.deadSends = 1]
    ELSE s

(* _fullUpdate without the check that the room is still the requested one *)
FullUpdateResolveUnguarded(s, requestedRoomCode, raw) ==
    LET newBoardState == ProcessRawBoardState(raw)
    IN IF Equal(s.boardState, newBoardState) THEN s
       ELSE [s EXCEPT !.boardState = newBoardState, !.emitted = @ + 1]

(* _fullUpdate without the deep-equality bail-out *)
FullUpdateResolveAlways(s, requestedRoomCode, raw) ==
    IF requestedRoomCode # s.roomParams.roomCode THEN [s EXCEPT !.dropped = TRUE]
    ELSE [s EXCEPT !.boardState = ProcessRawBoardState(raw), !.emitted = @ + 1]

(* The part of _fullUpdate after its await *)
FullUpdateResolve(s, requestedRoomCode, raw) ==
    IF requestedRoomCode # s.roomParams.roomCode THEN [s EXCEPT !.dropped = TRUE]
    ELSE LET newBoardState == ProcessRawBoardState(raw)
         IN IF Equal(s.boardState, newBoardState) THEN [s EXCEPT !.same = mode.board]
            ELSE [s EXCEPT !.boardState = newBoardState,
                           !.emitted = @ + 1]

(* resolve() or reject() of the connect promise that call c awaits (c = 0: the promise of a  *)
(* reconnect, which nobody awaits); a promise that has settled keeps its state               *)
SettleCall(s, c, how, text) ==
    IF c = 0 THEN s
    ELSE LET s1 == [s EXCEPT !.calls[c].settles = IF @ < 2 THEN @ + 1 ELSE @]
         IN IF s.calls[c].pc = "socket"
            THEN [s1 EXCEPT !.calls[c].pc = how, !.calls[c].err = text,
                            !.calls[c].log = s.statusLog, !.statusLog = <<>>]
            ELSE s1


----------------------------------------------------------------------------
(* joinRoom *)

(* joinRoom that opens the websocket before its first _fullUpdate *)
JoinAfterKeySocketFirst(s, c, key) ==
    LET s1 == [s EXCEPT !.roomParams = [roomCode |-> s.calls[c].roomCode,
                                        passOk |-> s.calls[c].passOk],
                        !.calls[c].socketKey = key]
        s2 == SetStatus(s1, "connected")
        s3 == [s2 EXCEPT !.timers = @ \cup {c}, !.intervalRef = c, !.calls[c].pc = "fetch"]
    IN CreateWebsocket(s3, key, c)

(* joinRoom from the commit of roomParams to the await inside the first _fullUpdate *)
JoinAfterKey(s, c, key) ==
    LET s1 == [s EXCEPT !.roomParams = [roomCode |-> s.calls[c].roomCode,
                                        passOk |-> s.calls[c].passOk],
                        !.calls[c].socketKey = key]
        s2 == SetStatus(s1, "connected")
    IN [s2 EXCEPT !.timers = @ \cup {c}, !.intervalRef = c, !.calls[c].pc = "fetch"]

Suspended(c) == calls[c].pc \in {"acquire", "fetch"}

(* A call of joinRoom, up to its first await *)
JoinRoom(c, roomCode, passOk) ==
    /\ calls[c].pc = "idle"
    /\ \A d \in 1 .. (c - 1) : calls[d].pc # "idle"
    /\ c <= mode.maxJoins
    /\ ~mode.overlap => \A d \in 1 .. mode.maxJoins : ~Suspended(d)
    /\ LET s0 == [Cur EXCEPT !.statusLog = <<>>, !.calls[c].pc = "start"]
           s1 == SetStatus(s0, "connecting")
           s2 == ClearInterval(s1)
           s3 == DestroyWebsocket(s2)
           cached == s3.store[roomCode]
           s4 == [s3 EXCEPT !.calls[c] = [IdleCall EXCEPT !.pc = "start",
                                                         !.roomCode = roomCode,
                                                         !.passOk = passOk,
                                                         !.hit = cached # NoKey]]
       IN IF cached # NoKey
          THEN Commit(JoinAfterKey(s4, c, cached))
          ELSE Commit([s4 EXCEPT !.calls[c].pc = "acquire", !.calls[c].acq = 1])
    /\ UNCHANGED <<mode, valid>>

(* getNewSocketKey of a joinRoom call returns a fresh key *)
JoinAcquireOk(c) ==
    /\ calls[c].pc = "acquire"
    /\ calls[c].passOk
    /\ nextTok <= mode.maxTokens
    /\ valid' = valid \cup {nextTok}
    /\ Commit(JoinAfterKey([Cur EXCEPT !.nextTok = @ + 1], c, nextTok))
    /\ UNCHANGED mode

(* joinRoom asking a second time for a key before it gives up *)
JoinAcquireFailRetry(c, text) ==
    /\ calls[c].pc = "acquire"
    /\ text = "Bad Request" => ~calls[c].passOk
    /\ IF calls[c].acq < 2
       THEN Commit([Cur EXCEPT !.calls[c].acq = @ + 1])
       ELSE Commit([Cur EXCEPT !.calls[c].pc = "rejected", !.calls[c].err = text,
                               !.calls[c].log = statusLog, !.statusLog = <<>>])
    /\ UNCHANGED <<mode, valid>>

(* getNewSocketKey of a joinRoom call throws: HTTP 400 on a wrong passphrase, or a network failure *)
JoinAcquireFail(c, text) ==
    /\ calls[c].pc = "acquire"
    /\ text = "Bad Request" => ~calls[c].passOk
    /\ Commit([Cur EXCEPT !.calls[c].pc = "rejected", !.calls[c].err = text,
                          !.calls[c].log = statusLog, !.statusLog = <<>>])
    /\ UNCHANGED <<mode, valid>>

(* The first _fullUpdate of a joinRoom call gets its response, then _createWebsocket runs *)
JoinFetchOk(c, raw) ==
    /\ calls[c].pc = "fetch"
    /\ Len(socks) < mode.maxSockets
    /\ LET s1 == FullUpdateResolve(Cur, calls[c].roomCode, raw)
           s2 == CreateWebsocket(s1, calls[c].socketKey, c)
       IN Commit([s2 EXCEPT !.calls[c].pc = "socket"])
    /\ UNCHANGED <<mode, valid>>

(* The first _fullUpdate of a joinRoom call fails: joinRoom rejects there *)
JoinFetchFail(c) ==
    /\ calls[c].pc = "fetch"
    /\ Commit([Cur EXCEPT !.calls[c].pc = "rejected", !.calls[c].err = "TransportError",
                          !.calls[c].log = statusLog, !.statusLog = <<>>])
    /\ UNCHANGED <<mode, valid>>

----------------------------------------------------------------------------
(* disconnect and the periodic full update *)

(* disconnect() that toggles the periodic timer instead of clearing it *)
DisconnectStateToggle(s, closeThrows) ==
    LET s1 == IF s.intervalRef \in s.timers THEN ClearInterval(s)
              ELSE [s EXCEPT !.timers = @ \cup {s.intervalRef}]
    IN SetStatus(DestroyWebsocketTry(s1, closeThrows), "disconnected")

(* disconnect() over a _destroyWebsocket that has no try/catch: an exception of close() *)
(* leaves the method after the handlers were replaced                                  *)
DisconnectStateNoCatch(s, closeThrows) ==
    IF closeThrows /\ s.websocket # 0
    THEN [ClearInterval(s) EXCEPT !.socks[s.websocket].live = FALSE]
    ELSE SetStatus(DestroyWebsocketTry(ClearInterval(s), closeThrows), "disconnected")

(* The body of disconnect(); closeThrows: whether the transport's close() throws *)
DisconnectState(s, closeThrows) ==
    SetStatus(DestroyWebsocketTry(ClearInterval(s), closeThrows), "disconnected")

Disconnect ==
    /\ \E s \in {DisconnectState(Cur, closeThrows) : closeThrows \in BOOLEAN} : Commit(s)
    /\ UNCHANGED <<mode, valid>>

(* The setInterval callback: _fullUpdate up to its await *)
TimerTick(t) ==
    /\ t \in timers
    /\ roomParams.roomCode \notin tfetch
    /\ Commit([Cur EXCEPT !.tfetch = @ \cup {roomParams.roomCode}])
    /\ UNCHANGED <<mode, valid>>

TimerFetchOk(r, raw) ==
    /\ r \in tfetch
    /\ Commit([FullUpdateResolve(Cur, r, raw) EXCEPT !.tfetch = @ \ {r}])
    /\ UNCHANGED <<mode, valid>>

(* A failed GET that also stops the periodic timer *)
TimerFetchFailStop(r) ==
    /\ r \in tfetch
    /\ Commit(Debug(ClearInterval([Cur EXCEPT !.tfetch = @ \ {r}]), "Failed to fullUpdate"))
    /\ UNCHANGED <<mode, valid>>

(* The GET fails: the error only goes to debug() *)
TimerFetchFail(r) ==
    /\ r \in tfetch
    /\ Commit(Debug([Cur EXCEPT !.tfetch = @ \ {r}], "Failed to fullUpdate"))
    /\ UNCHANGED <<mode, valid>>


----------------------------------------------------------------------------
(* The websocket handlers installed by _createWebsocket on socket w *)

(* onopen *)
OnOpen(s, w) ==
    IF s.websocket # 0 THEN Send(s, s.websocket, s.socks[w].socketKey) ELSE s

(* The retry that reports `connecting` while it re-authenticates *)
OnAuthRetryConnecting(s, w) ==
    IF s.websocket = 0
    THEN SettleCall(s, s.socks[w].owner, "rejected",
                    "The websocket disappeared when it shouldn't have")
    ELSE SetStatus([s EXCEPT !.numAuth = @ + 1,
                             !.handlers = @ (+) SetToBag({[ws |-> s.websocket,
                                                           passOk |-> s.roomParams.passOk]})],
                   "connecting")

(* The retry that asks for two keys *)
OnAuthRetryTwoCalls(s, w) ==
    IF s.websocket = 0
    THEN SettleCall(s, s.socks[w].owner, "rejected",
                    "The websocket disappeared when it shouldn't have")
    ELSE [s EXCEPT !.numAuth = @ + 1,
                   !.handlers = @ (+) SetToBag({[ws |-> s.websocket,
                                                 passOk |-> s.roomParams.passOk]})
                                  (+) SetToBag({[ws |-> s.websocket,
                                                 passOk |-> s.roomParams.passOk]})]

(* onmessage, error branch with a retry left: up to `await getNewSocketKey(this.roomParams)` *)
OnAuthRetry(s, w) ==
    IF s.websocket = 0
    THEN SettleCall(s, s.socks[w].owner, "rejected",
                    "The websocket disappeared when it shouldn't have")
    ELSE [s EXCEPT !.numAuth = @ + 1,
                   !.handlers = @ (+) SetToBag({[ws |-> s.websocket,
                                                 passOk |-> s.roomParams.passOk]})]

(* The fatal branch without its clearInterval *)
OnFatalKeepTimer(s, w, f) ==
    LET s1 == SetStatus(DestroyWebsocket(s), "error")
    IN IF ~s.socks[w].settled
       THEN LET s2 == SettleCall(s1, s.socks[w].owner, "rejected",
                                 IF f.error # "" THEN f.error ELSE "unknown error")
            IN IF s2.socks[w].live THEN [s2 EXCEPT !.socks[w].settled = TRUE] ELSE s2
       ELSE s1

(* The fatal branch without its `if (!settled)` *)
OnFatalUnguarded(s, w, f) ==
    LET s1 == SetStatus(DestroyWebsocket(ClearInterval(s)), "error")
        s2 == SettleCall(s1, s.socks[w].owner, "rejected",
                         IF f.error # "" THEN f.error ELSE "unknown error")
    IN IF s2.socks[w].live THEN [s2 EXCEPT !.socks[w].settled = TRUE] ELSE s2

(* onmessage, error branch without retry *)
OnFatal(s, w, f) ==
    LET s1 == SetStatus(DestroyWebsocket(ClearInterval(s)), "error")
    IN IF ~s.socks[w].settled
       THEN LET s2 == SettleCall(s1, s.socks[w].owner, "rejected",
                                 IF f.error # "" THEN f.error ELSE "unknown error")
            IN IF s2.socks[w].live THEN [s2 EXCEPT !.socks[w].settled = TRUE] ELSE s2
       ELSE s1

(* onmessage on a frame that is not an error, without _saveSocketKey *)
OnAcceptedNoSave(s, w, f, re) ==
    LET s1 == IF ~s.socks[w].settled
              THEN LET b == SetStatus(s, "connected")
                       d == [b EXCEPT !.socks[w].settled = TRUE]
                   IN SettleCall(d, s.socks[w].owner, "resolved", "")
              ELSE s
        s2 == [s1 EXCEPT !.numAuth = 0,
                         !.confirmed = IF re # NoKey THEN @ \cup {re} ELSE @]
    IN IF f.type = "goal" /\ s2.boardState.defined
       THEN [s2 EXCEPT !.boardState.cells = SetCell(@, SlotIndex(f.square.slot), f.square),
                       !.emitted = @ + 1]
       ELSE s2

(* onmessage on a frame that is not an error, with the counter reset inside `if (!settled)` *)
OnAcceptedResetFirstOnly(s, w, f, re) ==
    LET s1 == IF ~s.socks[w].settled
              THEN LET a == [s EXCEPT !.store[s.roomParams.roomCode] = s.socks[w].socketKey,
                                      !.numAuth = 0]
                       b == SetStatus(a, "connected")
                       d == [b EXCEPT !.socks[w].settled = TRUE]
                   IN SettleCall(d, s.socks[w].owner, "resolved", "")
              ELSE s
        s2 == [s1 EXCEPT !.confirmed = IF re # NoKey THEN @ \cup {re} ELSE @]
    IN IF f.type = "goal" /\ s2.boardState.defined
       THEN [s2 EXCEPT !.boardState.cells = SetCell(@, SlotIndex(f.square.slot), f.square),
                       !.emitted = @ + 1]
       ELSE s2

(* onmessage on a frame that is not an error, announcing a goal only when the cell changes *)
OnAcceptedGoalIfChanged(s, w, f, re) ==
    LET s1 == IF ~s.socks[w].settled
              THEN LET a == [s EXCEPT !.store[s.roomParams.roomCode] = s.socks[w].socketKey]
                       b == SetStatus(a, "connected")
                       d == [b EXCEPT !.socks[w].settled = TRUE]
                   IN SettleCall(d, s.socks[w].owner, "resolved", "")
              ELSE s
        s2 == [s1 EXCEPT !.numAuth = 0,
                         !.confirmed = IF re # NoKey THEN @ \cup {re} ELSE @]
        cells == SetCell(s2.boardState.cells, SlotIndex(f.square.slot), f.square)
    IN IF f.type = "goal" /\ s2.boardState.defined /\ cells # s2.boardState.cells
       THEN [s2 EXCEPT !.boardState.cells = cells, !.emitted = @ + 1]
       ELSE s2

(* onmessage, a frame that is not an error; re is the key it answers (NoKey if none) *)
OnAccepted(s, w, f, re) ==
    LET s1 == IF ~s.socks[w].settled
              THEN LET a == [s EXCEPT !.store[s.roomParams.roomCode] = s.socks[w].socketKey]
                       b == SetStatus(a, "connected")
                       d == [b EXCEPT !.socks[w].settled = TRUE]
                   IN SettleCall(d, s.socks[w].owner, "resolved", "")
              ELSE s
        s2 == [s1 EXCEPT !.numAuth = 0,
                         !.confirmed = IF re # NoKey THEN @ \cup {re} ELSE @]
    IN IF f.type = "goal" /\ s2.boardState.defined
       THEN [s2 EXCEPT !.boardState.cells = SetCell(@, SlotIndex(f.square.slot), f.square),
                       !.emitted = @ + 1]
       ELSE s2

(* The retry test with <= for < *)
WillRetryOnceMore(s, f) ==
    /\ f.type = "error"
    /\ f.error = AuthFailText
    /\ s.numAuth <= maxSocketAuthAttempts

(* The retry test with one retry too few *)
WillRetryTooFew(s, f) ==
    /\ f.type = "error"
    /\ f.error = AuthFailText
    /\ s.numAuth + 1 < maxSocketAuthAttempts

WillRetry(s, f) ==
    /\ f.type = "error"
    /\ f.error = AuthFailText
    /\ s.numAuth < maxSocketAuthAttempts

(* onmessage that treats a frame it cannot parse as an error frame *)
OnMessageStrict(s, w, f, re) ==
    IF f = Malformed THEN OnFatal(s, w, f)
    ELSE IF f.type = "error"
         THEN IF WillRetry(s, f) THEN OnAuthRetry(s, w) ELSE OnFatal(s, w, f)
         ELSE OnAccepted(s, w, f, re)

OnMessage(s, w, f, re) ==
    IF f = Malformed THEN Debug(s, "Failed to parse message")
    ELSE IF f.type = "error"
         THEN IF WillRetry(s, f) THEN OnAuthRetry(s, w) ELSE OnFatal(s, w, f)
         ELSE OnAccepted(s, w, f, re)

(* onclose that tears the transport down and leaves it at that *)
OnCloseNoReconnect(s, w) ==
    LET s1 == SetStatus(s, "disconnected")
        s2 == [s1 EXCEPT !.socks[w].st = "closed", !.socks[w].unanswered = <<>>]
    IN DestroyWebsocket(s2)

(* onclose *)
OnClose(s, w) ==
    LET key == s.socks[w].socketKey
        s1 == SetStatus(s, "disconnected")
        s2 == [s1 EXCEPT !.socks[w].st = "closed", !.socks[w].unanswered = <<>>]
        s3 == DestroyWebsocket(s2)
    IN CreateWebsocket(s3, key, 0)

Live(w) == w \in 1 .. Len(socks) /\ socks[w].live

(* The transport of w opens *)
WsOpen(w) ==
    /\ Live(w)
    /\ socks[w].st = "opening"
    /\ Commit(OnOpen([Cur EXCEPT !.socks[w].st = "open"], w))
    /\ UNCHANGED <<mode, valid>>

(* The server answers the oldest key frame it got on w *)
WsReply(w) ==
    /\ Live(w)
    /\ socks[w].unanswered # <<>>
    /\ LET tok == Head(socks[w].unanswered)
           f == IF tok \in valid THEN OkFrame ELSE ErrorFrame(AuthFailText)
           s0 == [Cur EXCEPT !.socks[w].unanswered = Tail(@),
                             !.socks[w].authed = @ \/ tok \in valid]
       IN Commit(OnMessage(s0, w, f, tok))
    /\ UNCHANGED <<mode, valid>>

(* The server sends a frame of its own on w *)
WsPush(w, f) ==
    /\ Live(w)
    /\ socks[w].st = "open"
    /\ \/ f \in ErrorPushes \cup {Malformed}
       \/ f \in DataPushes \cup {Deauthorize} /\ socks[w].authed
    /\ LET s0 == IF f = Deauthorize THEN [Cur EXCEPT !.socks[w].authed = FALSE] ELSE Cur
       IN Commit(OnMessage(s0, w, f, NoKey))
    /\ UNCHANGED <<mode, valid>>

(* The transport of w closes (server restart, network) *)
WsClose(w) ==
    /\ Live(w)
    /\ socks[w].st \in {"opening", "open"}
    /\ Len(socks) < mode.maxSockets
    /\ Commit(OnClose(Cur, w))
    /\ UNCHANGED <<mode, valid>>

(* A suspended onmessage gets its fresh key and sends it *)
RetryAcquireOk(h) ==
    /\ BagIn(h, handlers)
    /\ h.passOk
    /\ nextTok <= mode.maxTokens
    /\ valid' = valid \cup {nextTok}
    /\ Commit(Send([Cur EXCEPT !.handlers = @ (-) SetToBag({h}), !.nextTok = @ + 1],
                   h.ws, nextTok))
    /\ UNCHANGED mode

(* getNewSocketKey throws inside onmessage: the async handler's promise rejects, nobody observes it *)
RetryAcquireFail(h) ==
    /\ BagIn(h, handlers)
    /\ Commit([Cur EXCEPT !.handlers = @ (-) SetToBag({h})])
    /\ UNCHANGED <<mode, valid>>

(* The socket server forgets its keys (redeploy, restart) *)
ServerExpire ==
    /\ valid # {}
    /\ valid' = {}
    /\ Commit(Cur)
    /\ UNCHANGED mode

(* A call of joinRoom whose localStorage.getItem throws: the exception leaves joinRoom *)
JoinRoomStoreFail(c, roomCode, passOk) ==
    /\ calls[c].pc = "idle"
    /\ \A d \in 1 .. (c - 1) : calls[d].pc # "idle"
    /\ c <= mode.maxJoins
    /\ ~mode.overlap => \A d \in 1 .. mode.maxJoins : ~Suspended(d)
    /\ LET s0 == [Cur EXCEPT !.statusLog = <<>>, !.calls[c].pc = "start"]
           s1 == SetStatus(s0, "connecting")
           s2 == ClearInterval(s1)
           s3 == DestroyWebsocket(s2)
       IN Commit([s3 EXCEPT !.calls[c] = [IdleCall EXCEPT !.pc = "rejected",
                                                         !.roomCode = roomCode,
                                                         !.passOk = passOk,
                                                         !.err = "StoreError",
                                                         !.log = s3.statusLog],
                            !.statusLog = <<>>])
    /\ UNCHANGED <<mode, valid>>

(* The server accepts the key of w and localStorage.setItem throws in the first-frame branch: *)
(* the exception leaves the async onmessage there, and nobody observes it                    *)
WsReplyStoreFail(w) ==
    /\ Live(w)
    /\ socks[w].unanswered # <<>>
    /\ Head(socks[w].unanswered) \in valid
    /\ ~socks[w].settled
    /\ Commit([Cur EXCEPT !.socks[w].unanswered = Tail(@),
                          !.socks[w].authed = TRUE,
                          !.confirmed = @ \cup {Head(socks[w].unanswered)}])
    /\ UNCHANGED <<mode, valid>>

----------------------------------------------------------------------------
InitCommon ==
    /\ status = "disconnected"
    /\ statusLog = <<>>
    /\ emitted = 0
    /\ dropped = FALSE
    /\ same = FALSE
    /\ errored = 0
    /\ roomParams = NoParams
    /\ boardState = NoBoard
    /\ timers = {}
    /\ intervalRef = 0
    /\ websocket = 0
    /\ numAuth = 0
    /\ \E cached \in {NoKey, PreIssued} :
          /\ store = [r \in AllRooms |-> IF r = "A" THEN cached ELSE NoKey]
          /\ valid = {cached} \ {NoKey}
          /\ confirmed = {cached} \ {NoKey}
    /\ calls = [c \in 1 .. mode.maxJoins |-> IdleCall]
    /\ socks = <<>>
    /\ handlers = EmptyBag
    /\ tfetch = {}
    /\ nextTok = PreIssued + 1
    /\ deadSends = 0
    /\ note = ""

Mode(overlap, log, data, joins, sockets, tokens) ==
    [overlap |-> overlap, log |-> log, data |-> data, rich |-> FALSE, board |-> FALSE,
     maxJoins |-> joins, maxSockets |-> sockets, maxTokens |-> tokens]

Init == mode = Mode(FALSE, FALSE, FALSE, MaxJoins, MaxSockets, MaxTokens) /\ InitCommon
(* SpecTrace follows the one joinRoom call made on a fresh instance *)
InitTrace == mode = Mode(FALSE, TRUE, FALSE, 1, MaxSockets, MaxTokens - 1) /\ InitCommon
InitRejoin == mode = Mode(FALSE, FALSE, FALSE, MaxJoins + 1, MaxSockets, MaxTokens - 2) /\ InitCommon
InitFetch == mode = Mode(TRUE, FALSE, TRUE, MaxJoins + 1, MaxSockets, MaxTokens - 2) /\ InitCommon

(* SpecBoard follows the board: snapshots and goal frames of sessions whose server stays up *)
InitBoard ==
    /\ mode = [Mode(FALSE, FALSE, TRUE, MaxJoins + 1, MaxSockets, MaxTokens - 2) EXCEPT !.board = TRUE]
    /\ InitCommon
(* SpecNormalize serves snapshots whose colors strings have every shape *)
InitNormalize ==
    /\ mode = [Mode(FALSE, FALSE, TRUE, 1, MaxSockets - 1, MaxTokens - 2) EXCEPT !.rich = TRUE]
    /\ InitCommon

(* SpecStore follows one joinRoom call over a localStorage that may throw *)
InitStore == mode = Mode(FALSE, FALSE, FALSE, 1, MaxSockets, MaxTokens - 1) /\ InitCommon

(* SpecOverlap lets a joinRoom call start while another one is suspended, with transport events *)
InitOverlap == mode = Mode(TRUE, FALSE, FALSE, MaxJoins + 1, MaxSockets, MaxTokens - 2) /\ InitCommon

(* SpecLive follows the joinRoom calls of a fresh instance while every pending event is delivered *)
InitLive == mode = Mode(FALSE, FALSE, FALSE, MaxJoins, MaxSockets + 1, MaxTokens) /\ InitCommon

(* The connection core: joinRoom, disconnect and the websocket, before the first timer tick *)
Next ==
    \/ \E c \in 1 .. mode.maxJoins, r \in Rooms, ok \in BOOLEAN : JoinRoom(c, r, ok)
    \/ \E c \in 1 .. mode.maxJoins : JoinAcquireOk(c)
    \/ \E c \in 1 .. mode.maxJoins, text \in {"Bad Request", "TransportError"} : JoinAcquireFail(c, text)
    \/ \E c \in 1 .. mode.maxJoins, raw \in RawBoards : JoinFetchOk(c, raw)
    \/ \E c \in 1 .. mode.maxJoins : JoinFetchFail(c)
    \/ Disconnect
    \/ \E w \in 1 .. mode.maxSockets : WsOpen(w)
    \/ \E w \in 1 .. mode.maxSockets : WsReply(w)
    \/ \E w \in 1 .. mode.maxSockets, f \in ErrorPushes \cup DataPushes \cup {Deauthorize} : WsPush(w, f)
    \/ \E w \in 1 .. mode.maxSockets : WsClose(w)
    \/ \E h \in BagToSet(handlers) : RetryAcquireOk(h)
    \/ \E h \in BagToSet(handlers) : RetryAcquireFail(h)
    \/ ServerExpire

(* Overlapping joinRoom calls and the full updates, while no transport event arrives *)
NextFetch ==
    \/ \E c \in 1 .. mode.maxJoins, r \in Rooms, ok \in BOOLEAN : JoinRoom(c, r, ok)
    \/ \E c \in 1 .. mode.maxJoins : JoinAcquireOk(c)
    \/ \E c \in 1 .. mode.maxJoins, text \in {"Bad Request", "TransportError"} : JoinAcquireFail(c, text)
    \/ \E c \in 1 .. mode.maxJoins, raw \in RawBoards : JoinFetchOk(c, raw)
    \/ \E c \in 1 .. mode.maxJoins : JoinFetchFail(c)
    \/ Disconnect
    \/ \E t \in timers : TimerTick(t)
    \/ \E r \in Rooms, raw \in RawBoards : TimerFetchOk(r, raw)
    \/ \E r \in Rooms : TimerFetchFail(r)

(* joinRoom, the full updates and the frames of an accepted transport *)
NextBoard ==
    \/ \E c \in 1 .. mode.maxJoins, r \in Rooms, ok \in BOOLEAN : JoinRoom(c, r, ok)
    \/ \E c \in 1 .. mode.maxJoins : JoinAcquireOk(c)
    \/ \E c \in 1 .. mode.maxJoins, text \in {"Bad Request", "TransportError"} : JoinAcquireFail(c, text)
    \/ \E c \in 1 .. mode.maxJoins, raw \in RawBoards : JoinFetchOk(c, raw)
    \/ \E c \in 1 .. mode.maxJoins : JoinFetchFail(c)
    \/ Disconnect
    \/ \E t \in timers : TimerTick(t)
    \/ \E r \in Rooms, raw \in RawBoards : TimerFetchOk(r, raw)
    \/ \E r \in Rooms : TimerFetchFail(r)
    \/ \E w \in 1 .. mode.maxSockets : WsOpen(w)
    \/ \E w \in 1 .. mode.maxSockets : WsReply(w)
    \/ \E w \in 1 .. mode.maxSockets, f \in DataPushes : WsPush(w, f)

(* The connection core over a localStorage whose getItem and setItem may throw *)
NextStore ==
    \/ Next
    \/ \E c \in 1 .. mode.maxJoins, r \in Rooms, ok \in BOOLEAN : JoinRoomStoreFail(c, r, ok)
    \/ \E w \in 1 .. mode.maxSockets : WsReplyStoreFail(w)

Spec == Init /\ [][Next]_vars
SpecTrace == InitTrace /\ [][Next]_vars
SpecRejoin == InitRejoin /\ [][Next]_vars
SpecFetch == InitFetch /\ [][NextFetch]_vars
SpecBoard == InitBoard /\ [][NextBoard]_vars
SpecNormalize == InitNormalize /\ [][NextFetch]_vars
SpecStore == InitStore /\ [][NextStore]_vars
SpecOverlap == InitOverlap /\ [][Next]_vars

(* The event loop runs every continuation and handler that is due, and the servers answer: *)
(* a transport that is opening opens, a key frame gets its reply, and a pending snapshot   *)
(* or key request of a call with the right passphrase gets its response                    *)
Fairness ==
    /\ WF_vars(\E c \in 1 .. mode.maxJoins : JoinAcquireOk(c))
    /\ WF_vars(\E c \in 1 .. mode.maxJoins, raw \in RawBoards : JoinFetchOk(c, raw))
    /\ WF_vars(\E w \in 1 .. mode.maxSockets : WsOpen(w))
    /\ WF_vars(\E w \in 1 .. mode.maxSockets : WsReply(w))
    /\ WF_vars(\E h \in BagToSet(handlers) : RetryAcquireOk(h))

(* joinRoom calls that are left alone: no disconnect(), every request to the site succeeds, *)
(* and the socket server only answers, closes transports and restarts                      *)
NextLive ==
    \/ \E c \in 1 .. mode.maxJoins, r \in Rooms : JoinRoom(c, r, TRUE)
    \/ \E c \in 1 .. mode.maxJoins : JoinAcquireOk(c)
    \/ \E c \in 1 .. mode.maxJoins, raw \in RawBoards : JoinFetchOk(c, raw)
    \/ \E w \in 1 .. mode.maxSockets : WsOpen(w)
    \/ \E w \in 1 .. mode.maxSockets : WsReply(w)
    \/ \E w \in 1 .. mode.maxSockets : WsClose(w)
    \/ \E h \in BagToSet(handlers) : RetryAcquireOk(h)
    \/ ServerExpire

SpecLive == InitLive /\ [][NextLive]_vars /\ Fairness

TypeOK ==
    /\ status \in Statuses
    /\ numAuth \in 0 .. maxSocketAuthAttempts
    /\ websocket \in 0 .. Len(socks)
    /\ Len(socks) <= mode.maxSockets
    /\ nextTok \in 1 .. (mode.maxTokens + 1)
    /\ note \in {"", "Failed to parse message", "Failed to fullUpdate"}


----------------------------------------------------------------------------
(* Steps that the claims talk about *)

(* onmessage of w runs on an authentication rejection *)
AuthRejectStep(w) ==
    \/ WsReply(w) /\ Head(socks[w].unanswered) \notin valid
    \/ WsPush(w, Deauthorize)

(* onmessage of w runs on a frame that parses and is not an error *)
ConfirmStep(w) ==
    \/ WsReply(w) /\ Head(socks[w].unanswered) \in valid
    \/ \E f \in DataPushes \ {Malformed} : WsPush(w, f)

(* onmessage of w takes its fatal branch: an error frame that is not retried *)
FatalStep(w) ==
    \/ \E f \in ErrorPushes : WsPush(w, f)
    \/ AuthRejectStep(w) /\ numAuth >= maxSocketAuthAttempts

NoDisconnectIn(log) == \A i \in 1 .. Len(log) : log[i] # "disconnected"

----------------------------------------------------------------------------
(* C1: a joinRoom on a fresh instance (cache miss, right passphrase, first *)
(* frame not an error) resolves having emitted exactly the statuses        *)
(* connecting, connected.                                                  *)
C1_StatusSequence ==
    \A c \in DOMAIN calls :
        (/\ calls[c].pc = "resolved"
         /\ ~calls[c].hit
         /\ calls[c].passOk
         /\ calls[c].socketKey \in confirmed
         /\ NoDisconnectIn(calls[c].log))
        => calls[c].log = <<"connecting", "connected">>

(* C1 as amended: the statuses emitted during that call are connecting,   *)
(* connected, connecting, connected: joinRoom reports `connected` once it  *)
(* has its key, _createWebsocket reports `connecting` again and the first  *)
(* frame reports `connected`.                                              *)
C1_StatusSequenceAmended ==
    \A c \in DOMAIN calls :
        (/\ calls[c].pc = "resolved"
         /\ ~calls[c].hit
         /\ calls[c].passOk
         /\ calls[c].socketKey \in confirmed
         /\ NoDisconnectIn(calls[c].log))
        => calls[c].log = <<"connecting", "connected", "connecting", "connected">>

C1_Witness ==
    \E c \in DOMAIN calls :
        /\ calls[c].pc = "resolved"
        /\ ~calls[c].hit
        /\ calls[c].passOk
        /\ calls[c].socketKey \in confirmed
        /\ calls[c].log = <<"connecting", "connected", "connecting", "connected">>
        /\ status = "connected"

(* C2: when getNewSocketKey fails on a wrong passphrase, joinRoom rejects   *)
(* after one acquisition attempt; nothing is persisted, no transport exists *)
(* and no interval timer runs.                                              *)
C2_WrongPassphraseRejects ==
    [][\A c \in DOMAIN calls :
          (/\ calls[c].pc = "acquire"
           /\ calls'[c].pc = "rejected"
           /\ calls'[c].err = "Bad Request")
          => /\ calls'[c].acq = 1
             /\ store' = store
             /\ store'[calls[c].roomCode] = NoKey
             /\ websocket' = 0
             /\ Len(socks') = Len(socks)
             /\ \A w \in 1 .. Len(socks') : ~socks'[w].live
             /\ timers' = {}
             /\ handlers' = handlers]_vars

C2_Witness ==
    \E c \in DOMAIN calls :
        /\ calls[c].pc = "rejected"
        /\ calls[c].err = "Bad Request"
        /\ calls[c].acq = 1
        /\ store[calls[c].roomCode] = NoKey
        /\ websocket = 0
        /\ timers = {}

(* C3: the step in which joinRoom fails on a wrong passphrase leaves the *)
(* status at `error`.                                                    *)
C3_StatusErrorAfterWrongPassphrase ==
    [][\A c \in DOMAIN calls :
          (/\ calls[c].pc = "acquire"
           /\ calls'[c].pc = "rejected"
           /\ calls'[c].err = "Bad Request")
          => status' = "error"]_vars

(* C4: a joinRoom for a room for which an earlier joinRoom resolved takes *)
(* its key from the cache and calls getNewSocketKey zero times; a key is   *)
(* only requested again when the server rejects one.                       *)
C4_RejoinUsesCachedKey ==
    [][/\ \A c \in DOMAIN calls :
            (/\ calls[c].pc = "idle"
             /\ calls'[c].pc # "idle"
             /\ \E d \in DOMAIN calls : /\ calls[d].pc = "resolved"
                                        /\ calls[d].roomCode = calls'[c].roomCode)
            => /\ calls'[c].hit
               /\ calls'[c].acq = 0
               /\ calls'[c].pc = "fetch"
               /\ calls'[c].socketKey = store[calls'[c].roomCode]
               /\ handlers' = handlers
               /\ nextTok' = nextTok
       /\ \A c \in DOMAIN calls : calls'[c].hit => calls'[c].acq = 0
       /\ handlers' # handlers /\ handlers' = handlers (+) (handlers' (-) handlers)
            => \E w \in 1 .. Len(socks) : AuthRejectStep(w)]_vars

C4_Witness ==
    \E c, d \in DOMAIN calls :
        /\ d < c
        /\ calls[d].pc = "resolved" /\ calls[d].acq = 1
        /\ calls[c].pc = "resolved" /\ calls[c].hit /\ calls[c].acq = 0
        /\ calls[c].roomCode = calls[d].roomCode
        /\ calls[c].socketKey = calls[d].socketKey
        /\ nextTok = PreIssued + 2
        /\ handlers = EmptyBag

(* C5: every key in the cache is a key the server has confirmed. *)
C5_StoredKeysConfirmed ==
    \A r \in AllRooms : store[r] # NoKey => store[r] \in confirmed

(* C6: the maxSocketAuthAttempts-th consecutive authentication rejection   *)
(* (counted from 0) sets status `error`, tears the transport down and asks *)
(* for no new key.                                                         *)
C6_ErrorOnMaxthRejection ==
    [][\A w \in 1 .. Len(socks) :
          (/\ AuthRejectStep(w)
           /\ numAuth = maxSocketAuthAttempts - 1
           /\ Len(socks) = 1
           /\ calls[socks[w].owner].pc = "socket")
          => /\ status' = "error"
             /\ websocket' = 0
             /\ calls'[socks[w].owner].pc = "rejected"
             /\ handlers' = handlers]_vars

(* C6 as amended: each authentication rejection that finds the counter     *)
(* below maxSocketAuthAttempts raises it by one and requests one new key on *)
(* the same transport; the rejection that finds it at maxSocketAuthAttempts *)
(* (the (max+1)-th in a row from 0) sets status `error`, tears the          *)
(* transport down, stops the timer, rejects a pending joinRoom and requests *)
(* no key.                                                                  *)
C6_ErrorAfterMaxRetries ==
    [][\A w \in 1 .. Len(socks) :
          AuthRejectStep(w)
          => /\ numAuth = maxSocketAuthAttempts
                  => /\ status' = "error"
                     /\ websocket' = 0
                     /\ websocket = w => ~socks'[w].live
                     /\ timers' = timers \ {intervalRef}
                     /\ handlers' = handlers
                     /\ numAuth' = numAuth
                     /\ (socks[w].owner # 0 /\ calls[socks[w].owner].pc = "socket")
                          => /\ calls'[socks[w].owner].pc = "rejected"
                             /\ calls'[socks[w].owner].err = AuthFailText
             /\ (numAuth < maxSocketAuthAttempts /\ websocket # 0)
                  => /\ numAuth' = numAuth + 1
                     /\ status' = status
                     /\ websocket' = websocket
                     /\ Len(socks') = Len(socks)
                     /\ BagCardinality(handlers') = BagCardinality(handlers) + 1]_vars

C6_Witness ==
    /\ status = "error"
    /\ numAuth = maxSocketAuthAttempts
    /\ websocket = 0
    /\ timers = {}
    /\ Len(socks) = 1
    /\ nextTok = PreIssued + maxSocketAuthAttempts + 1
    /\ \E c \in DOMAIN calls : calls[c].pc = "rejected" /\ calls[c].err = AuthFailText

(* C7: after onmessage has processed a frame that is not an error, *)
(* _numSocketAuthAttempts is 0, settled or not.                     *)
C7_CounterResetOnSuccess ==
    [][\A w \in 1 .. Len(socks) : ConfirmStep(w) => numAuth' = 0]_vars

C7_Witness ==
    /\ numAuth = 0
    /\ \E w \in 1 .. Len(socks) : Live(w) /\ socks[w].authed /\ socks[w].settled
    /\ \E c \in DOMAIN calls : /\ calls[c].pc = "resolved"
                               /\ ~calls[c].hit
                               /\ calls[c].socketKey \notin confirmed


(* C8: while joinRoom waits on a transport it opened with a cached key and  *)
(* the right passphrase, an authentication rejection below the maximum does *)
(* not reject it: a fresh key is requested and sent on the same transport,  *)
(* and the confirming reply resolves it with status `connected`.            *)
C8_StaleCachedKeyIsTransparent ==
    [][/\ \A w \in 1 .. Len(socks) :
            (/\ Live(w)
             /\ socks[w].owner # 0
             /\ calls[socks[w].owner].pc = "socket"
             /\ calls[socks[w].owner].hit
             /\ calls[socks[w].owner].passOk)
            => /\ (AuthRejectStep(w) /\ numAuth < maxSocketAuthAttempts)
                    => /\ calls'[socks[w].owner].pc = "socket"
                       /\ websocket' = w
                       /\ socks'[w].live
                       /\ Len(socks') = Len(socks)
                       /\ status' = status
                       /\ handlers' = handlers (+) SetToBag({[ws |-> w, passOk |-> TRUE]})
               /\ ConfirmStep(w)
                    => /\ calls'[socks[w].owner].pc = "resolved"
                       /\ status' = "connected"
       /\ \A h \in BagToSet(handlers) :
            (RetryAcquireOk(h) /\ socks[h.ws].st = "open")
            => /\ socks'[h.ws].unanswered = Append(socks[h.ws].unanswered, nextTok)
               /\ nextTok \in valid'
               /\ Len(socks') = Len(socks)
               /\ calls' = calls]_vars

C8_Witness ==
    \E c \in DOMAIN calls :
        /\ calls[c].pc = "resolved"
        /\ calls[c].hit
        /\ calls[c].socketKey \notin valid
        /\ status = "connected"
        /\ nextTok > PreIssued + 1
        /\ \E w \in 1 .. Len(socks) :
              Live(w) /\ socks[w].owner = c /\ socks[w].authed /\ websocket = w

(* C9: on a connected session, authentication rejections below the maximum *)
(* and the confirmation that follows leave the status at `connected`, and   *)
(* the confirmation leaves _numSocketAuthAttempts at 0.                     *)
C9_MidSessionReauthKeepsConnected ==
    [][/\ \A w \in 1 .. Len(socks) :
            (Live(w) /\ socks[w].settled /\ websocket = w /\ status = "connected")
            => /\ (AuthRejectStep(w) /\ numAuth < maxSocketAuthAttempts)
                    => status' = "connected"
               /\ ConfirmStep(w) => (status' = "connected" /\ numAuth' = 0)
       /\ \A h \in BagToSet(handlers) :
            (RetryAcquireOk(h) \/ RetryAcquireFail(h)) => status' = status]_vars

C9_Witness ==
    /\ status = "connected"
    /\ numAuth = 0
    /\ \E w \in 1 .. Len(socks) :
          /\ Live(w) /\ socks[w].settled /\ socks[w].authed /\ websocket = w
          /\ socks[w].socketKey > PreIssued
          /\ socks[w].socketKey \in confirmed
          /\ nextTok >= socks[w].socketKey + 3
          /\ nextTok - 1 \in confirmed
          /\ calls[socks[w].owner].pc = "resolved"

(* C10: the response of a full update requested for another room than the *)
(* one committed when it arrives changes no board state and emits no       *)
(* board-changed.                                                          *)
C10_StaleSnapshotDiscarded ==
    [][/\ \A r \in Rooms, raw \in RawBoards :
            (r # roomParams.roomCode /\ TimerFetchOk(r, raw))
            => (boardState' = boardState /\ emitted' = 0)
       /\ \A c \in DOMAIN calls, raw \in RawBoards :
            (calls[c].roomCode # roomParams.roomCode /\ JoinFetchOk(c, raw))
            => (boardState' = boardState /\ emitted' = 0)]_vars

C10_Witness ==
    /\ dropped
    /\ emitted = 0
    /\ boardState.defined
    /\ boardState.cells[1].slot = SlotId(<<"1">>)

(* C11: a snapshot for the current room leaves boardState equal to its      *)
(* normalized form; when that form is deeply equal to the current           *)
(* boardState the board is left as it is and no board-changed is emitted,   *)
(* so the second of two equal snapshots with no delta in between is silent  *)
(* and at most one board-changed is emitted for the two.                    *)
C11_SnapshotIdempotent ==
    [][/\ \A r \in Rooms, raw \in RawBoards :
            (r = roomParams.roomCode /\ TimerFetchOk(r, raw))
            => /\ boardState' = ProcessRawBoardState(raw)
               /\ emitted' = IF Equal(boardState, ProcessRawBoardState(raw)) THEN 0 ELSE 1
       /\ \A c \in DOMAIN calls, raw \in RawBoards :
            (calls[c].roomCode = roomParams.roomCode /\ JoinFetchOk(c, raw))
            => /\ boardState' = ProcessRawBoardState(raw)
               /\ emitted' = IF Equal(boardState, ProcessRawBoardState(raw)) THEN 0 ELSE 1]_vars

C11_Witness ==
    /\ same
    /\ emitted = 0
    /\ boardState.defined
    /\ tfetch = {}
    /\ \E c \in DOMAIN calls : calls[c].pc = "resolved"

(* C12: a goal frame whose square names slot<n> puts that square at index   *)
(* n-1 of boardState.cells, leaves every other cell as it was and emits     *)
(* board-changed exactly once, also when the cell already held that square. *)
C12_DeltaIsPositional ==
    [][\A w \in 1 .. Len(socks), sq \in DeltaSquares :
          WsPush(w, GoalFrame(sq))
          => LET i == SlotIndex(sq.slot) + 1
             IN /\ i \in 1 .. Len(boardState'.cells)
                /\ boardState'.cells[i] = sq
                /\ \A j \in 1 .. Len(boardState.cells) :
                      j # i => boardState'.cells[j] = boardState.cells[j]
                /\ emitted' = 1]_vars

C12_Witness ==
    /\ emitted = 1
    /\ boardState.defined
    /\ boardState.cells[1] = RawCell("1", <<"red">>)
    /\ \E w \in 1 .. Len(socks) : socks[w].live /\ socks[w].authed

(* C13: once a snapshot has populated boardState, no step of the session to *)
(* that room changes the number of its cells.                               *)
C13_CellCountStable ==
    [][(boardState.defined /\ roomParams' = roomParams)
       => Len(boardState'.cells) = Len(boardState.cells)]_vars

(* C14: a close event on the transport reports `disconnected`, detaches the *)
(* handlers of the old transport and drops the reference, then opens a new  *)
(* transport and reports `connecting`; no counter limits it and the         *)
(* periodic timer is left running.                                          *)
C14_CloseReconnects ==
    [][\A w \in 1 .. Len(socks) :
          WsClose(w)
          => /\ status' = "connecting"
             /\ ~socks'[w].live
             /\ Len(socks') = Len(socks) + 1
             /\ websocket' = Len(socks')
             /\ socks'[websocket'].live
             /\ socks'[websocket'].st = "opening"
             /\ timers' = timers
             /\ intervalRef' = intervalRef
             /\ numAuth' = numAuth
             /\ (Pending(Cur) /\ Len(statusLog) + 2 <= MaxLog)
                  => statusLog' = statusLog \o <<"disconnected", "connecting">>]_vars

C14_Witness ==
    /\ Len(socks) = 2
    /\ ~socks[1].live
    /\ websocket = 2
    /\ socks[2].st = "opening"
    /\ status = "connecting"
    /\ timers # {}
    /\ statusLog = <<"connecting", "connected", "connecting", "disconnected", "connecting">>

(* C15: when disconnect() returns the periodic timer is cancelled, the      *)
(* former transport has its handlers detached, the transport reference is   *)
(* null and status is `disconnected`, whether or not close() threw.         *)
C15_DisconnectTearsDown ==
    [][Disconnect
       => /\ status' = "disconnected"
          /\ websocket' = 0
          /\ timers' = {}
          /\ websocket # 0 => ~socks'[websocket].live
          /\ \A w \in 1 .. Len(socks') : ~socks'[w].live]_vars

C15_Witness ==
    /\ status = "disconnected"
    /\ websocket = 0
    /\ timers = {}
    /\ intervalRef # 0
    /\ Len(socks) >= 1
    /\ \A w \in 1 .. Len(socks) : ~socks[w].live
    /\ \E c \in DOMAIN calls : calls[c].pc = "resolved"

(* C16: from every reachable state, a second disconnect() right after a     *)
(* first leaves status, timer, transport, boardState and the stored keys as *)
(* the first left them, whatever close() does in either call.               *)
C16_DisconnectIdempotent ==
    \A t1, t2 \in BOOLEAN :
        LET once == DisconnectState(Cur, t1)
            twice == DisconnectState(once, t2)
        IN /\ twice.status = once.status
           /\ twice.timers = once.timers
           /\ twice.intervalRef = once.intervalRef
           /\ twice.websocket = once.websocket
           /\ twice.socks = once.socks
           /\ twice.boardState = once.boardState
           /\ twice.store = once.store
           /\ twice.roomParams = once.roomParams
           /\ twice.numAuth = once.numAuth

C16_Witness ==
    /\ status = "disconnected"
    /\ websocket = 0
    /\ intervalRef \notin timers
    /\ boardState.defined
    /\ \E r \in Rooms : store[r] # NoKey /\ store[r] >= nextTok - 1
    /\ \E w \in 1 .. Len(socks) : socks[w] = DeadSock
    /\ DisconnectState(Cur, FALSE).socks = socks

(* C17: a fatal error frame (an error other than the authentication         *)
(* rejection, or a rejection that finds the counter at its maximum) that    *)
(* arrives after the connect promise has settled is reported by an `error`  *)
(* event.                                                                   *)
C17_FatalErrorEmitsErrorEvent ==
    [][\A w \in 1 .. Len(socks) :
          (/\ socks[w].settled
           /\ \/ \E f \in ErrorPushes : WsPush(w, f)
              \/ numAuth = maxSocketAuthAttempts /\ AuthRejectStep(w))
          => errored' >= 1]_vars

(* C18: every cell a snapshot has put in boardState has colors with no      *)
(* token equal to "blank" in any letter case and no empty token, and the    *)
(* slot and name of its raw record.                                         *)
C18_NormalizedColorsClean ==
    boardState.defined
    => \A i \in 1 .. Len(boardState.cells) :
          LET cell == boardState.cells[i]
          IN /\ cell.colors.kind = "list"
             /\ \A k \in 1 .. Len(cell.colors.items) :
                   /\ LowerTok(cell.colors.items[k]) # <<"blank">>
                   /\ cell.colors.items[k] # <<>>
             /\ cell.slot = SlotId(<<"1">>)
             /\ cell.name = "goal"

(* C19: when the transport closes after the server has stopped accepting    *)
(* the key the transport was created with and has accepted a key acquired   *)
(* later, the key the new transport is created with (the one its onopen     *)
(* sends) is the latest key the server accepted.                            *)
C19_ReconnectSendsLatestAcceptedKey ==
    [][\A w \in 1 .. Len(socks) :
          (/\ \E k \in confirmed : k > socks[w].socketKey
           /\ socks[w].socketKey \notin valid
           /\ WsClose(w))
          => LET sent == socks'[websocket'].socketKey
             IN /\ sent \in confirmed
                /\ \A k \in confirmed : k <= sent]_vars

(* C20: an error frame that is not the authentication rejection cancels the *)
(* timer, tears the transport down, sets status `error` and rejects a       *)
(* pending connect call with the frame's text ("unknown error" when it has  *)
(* none), opens no transport and asks for no key; and while status stays    *)
(* `error` no transport is opened and no timer runs.                        *)
C20_NonAuthErrorIsFatal ==
    [][/\ \A w \in 1 .. Len(socks), f \in ErrorPushes :
            WsPush(w, f)
            => /\ status' = "error"
               /\ timers' = {}
               /\ websocket' = 0
               /\ ~socks'[w].live
               /\ Len(socks') = Len(socks)
               /\ handlers' = handlers
               /\ tfetch' = tfetch
               /\ (/\ ~socks[w].settled
                   /\ socks[w].owner # 0
                   /\ calls[socks[w].owner].pc = "socket")
                    => /\ calls'[socks[w].owner].pc = "rejected"
                       /\ calls'[socks[w].owner].err =
                             (IF f.error # "" THEN f.error ELSE "unknown error")
       /\ (status = "error" /\ status' = "error")
            => /\ websocket' = 0
               /\ Len(socks') = Len(socks)
               /\ timers' = {}
               /\ tfetch' \subseteq tfetch]_vars

C20_Witness ==
    /\ status = "error"
    /\ websocket = 0
    /\ timers = {}
    /\ intervalRef # 0
    /\ numAuth = 0
    /\ \A w \in 1 .. Len(socks) : ~socks[w].live
    /\ \E c \in DOMAIN calls : calls[c].pc = "rejected" /\ calls[c].err = "unknown error"

----------------------------------------------------------------------------
(* C21: the connect promise of a connection attempt is settled at most once: *)
(* resolve() or reject() is invoked on it at most once, and once the call    *)
(* that awaits it has resolved or rejected, no later frame or close event,   *)
(* of that attempt or of one that superseded it, changes its outcome.        *)
C21_SettledAtMostOnce ==
    [][\A c \in DOMAIN calls :
          /\ calls'[c].settles <= 1
          /\ calls[c].pc \in {"resolved", "rejected"} =>
                /\ calls'[c].pc = calls[c].pc
                /\ calls'[c].err = calls[c].err]_vars

(* The call resolved, its transport closed, and the transport of the reconnect was accepted *)
C21_Witness ==
    \E c \in DOMAIN calls :
        /\ calls[c].pc = "resolved"
        /\ calls[c].settles = 1
        /\ websocket # 0
        /\ socks[websocket].live
        /\ socks[websocket].owner = 0
        /\ socks[websocket].settled
        /\ status = "connected"

----------------------------------------------------------------------------
(* C22: in every reachable state at most one transport has live handlers, *)
(* and it is the one the transport reference points to.                   *)
C22_OneLiveTransport ==
    \A w \in 1 .. Len(socks) : socks[w].live => w = websocket

----------------------------------------------------------------------------
(* C23: a frame that cannot be parsed is fatal to the connection attempt: *)
(* status becomes error, the transport is torn down and not reopened, and *)
(* the outstanding join call fails.                                       *)
C23_MalformedFrameIsFatal ==
    [][\A w \in 1 .. Len(socks) :
          WsPush(w, Malformed) =>
             /\ status' = "error"
             /\ websocket' = 0
             /\ ~socks'[w].live
             /\ Len(socks') = Len(socks)
             /\ \A c \in DOMAIN calls : calls[c].pc = "socket" => calls'[c].pc = "rejected"]_vars

(* C23 as the code has it: a frame that cannot be parsed is dropped. Status, *)
(* transport, timer, counter, board, cache and calls stay as they were, no   *)
(* event is emitted, and an outstanding join call stays pending.             *)
C23_MalformedFrameIgnored ==
    [][\A w \in 1 .. Len(socks) :
          WsPush(w, Malformed) =>
             /\ UNCHANGED <<status, websocket, socks, timers, intervalRef, numAuth, store,
                            boardState, roomParams, calls, handlers, tfetch>>
             /\ emitted' = 0
             /\ errored' = 0
             /\ note' = "Failed to parse message"]_vars

(* A frame that cannot be parsed was just dropped while a join call waits for its first frame *)
C23_Witness ==
    /\ note = "Failed to parse message"
    /\ status = "connecting"
    /\ websocket # 0
    /\ socks[websocket].st = "open"
    /\ ~socks[websocket].settled
    /\ \E c \in DOMAIN calls : calls[c].pc = "socket" /\ socks[websocket].owner = c

----------------------------------------------------------------------------
(* C24: a failure of the Token Store is never fatal. A load that throws in   *)
(* joinRoom behaves as a miss: the call goes on to the Token Acquirer. A     *)
(* save that throws on the first accepted frame still resolves the connect   *)
(* call and sets status connected.                                           *)
C24_StoreFailureNeverFatal ==
    [][/\ \A c \in DOMAIN calls, r \in Rooms, ok \in BOOLEAN :
             JoinRoomStoreFail(c, r, ok) => calls'[c].pc = "acquire"
       /\ \A w \in 1 .. Len(socks) :
             WsReplyStoreFail(w) =>
                /\ status' = "connected"
                /\ socks[w].owner # 0 /\ calls[socks[w].owner].pc = "socket" =>
                      calls'[socks[w].owner].pc = "resolved"]_vars

----------------------------------------------------------------------------
(* C25: a periodic snapshot fetch that fails leaves status, BoardState,   *)
(* transport, AuthAttemptCounter and Token Store as they were, emits no   *)
(* board-changed event, and does not cancel the periodic timer.           *)
C25_FailedPeriodicFetchIsInert ==
    [][\A r \in Rooms :
          TimerFetchFail(r) =>
             /\ UNCHANGED <<status, boardState, websocket, socks, numAuth, store,
                            timers, intervalRef, roomParams, calls, handlers>>
             /\ emitted' = 0
             /\ errored' = 0]_vars

(* A periodic fetch has just failed in a connected session whose timer is still running *)
C25_Witness ==
    /\ note = "Failed to fullUpdate"
    /\ status = "connected"
    /\ boardState.defined
    /\ intervalRef \in timers
    /\ websocket # 0
    /\ socks[websocket].settled

----------------------------------------------------------------------------
(* C26: the order inside joinRoom. A call commits the SessionParameters only *)
(* with its token resolved, and in that step starts the periodic timer and   *)
(* no transport; its transport is created only in the step that completes    *)
(* its immediate snapshot fetch, after the timer was started, and not at all *)
(* when that fetch fails; and the call resolves only in the step in which    *)
(* its transport gets its first frame that is not an error.                  *)
C26_JoinRoomOrdering ==
    [][\A c \in DOMAIN calls :
          /\ calls[c].pc \in {"idle", "acquire"} =>
                IF calls'[c].pc \in {"idle", "acquire", "rejected"}
                THEN /\ roomParams' = roomParams
                     /\ timers' \subseteq timers
                     /\ Len(socks') = Len(socks)
                ELSE /\ calls'[c].pc = "fetch"
                     /\ calls'[c].socketKey # NoKey
                     /\ roomParams' = [roomCode |-> calls'[c].roomCode, passOk |-> calls'[c].passOk]
                     /\ intervalRef' = c
                     /\ c \in timers'
                     /\ Len(socks') = Len(socks)
                     /\ websocket' = 0
          /\ (Len(socks') > Len(socks) /\ socks'[Len(socks')].owner = c) =>
                /\ calls[c].pc = "fetch"
                /\ calls'[c].pc = "socket"
                /\ intervalRef = c
                /\ boardState'.defined
                /\ socks'[Len(socks')].socketKey = calls[c].socketKey
          /\ (calls[c].pc = "fetch" /\ calls'[c].pc = "rejected") => Len(socks') = Len(socks)
          /\ (calls[c].pc # "resolved" /\ calls'[c].pc = "resolved") =>
                /\ calls[c].pc = "socket"
                /\ status' = "connected"
                /\ \E w \in 1 .. Len(socks) :
                      /\ socks[w].owner = c
                      /\ ~socks[w].settled
                      /\ socks'[w].settled
                      /\ ConfirmStep(w)]_vars

(* A call that had to acquire its token has gone through all the stages and resolved *)
C26_Witness ==
    \E c \in DOMAIN calls :
        /\ calls[c].pc = "resolved"
        /\ ~calls[c].hit
        /\ calls[c].socketKey # NoKey
        /\ roomParams.roomCode = calls[c].roomCode
        /\ intervalRef = c
        /\ c \in timers
        /\ boardState.defined
        /\ \E w \in 1 .. Len(socks) : socks[w].live /\ socks[w].owner = c /\ socks[w].settled

----------------------------------------------------------------------------
(* C27: status takes the value error only in a step in which the active    *)
(* transport processes an error frame that is not retried (no joinRoom,    *)
(* disconnect, close event, snapshot failure or acquisition failure sets   *)
(* it), and while status is error no transport exists and no periodic      *)
(* timer is active.                                                        *)
C27_ErrorOnlyFromErrorFrame ==
    [][/\ (status' = "error" /\ status # "error") =>
             \E w \in 1 .. Len(socks) : w = websocket /\ FatalStep(w)
       /\ status' = "error" =>
             /\ websocket' = 0
             /\ timers' = {}
             /\ \A w \in 1 .. Len(socks') : ~socks'[w].live]_vars

----------------------------------------------------------------------------
(* C28: the AuthAttemptCounter is per connection attempt: it is 0 when an  *)
(* attempt starts, that is in every step that creates a transport, whether *)
(* for a joinRoom call or for the reconnect after a close.                 *)
C28_CounterZeroAtAttemptStart ==
    [][Len(socks') > Len(socks) => numAuth' = 0]_vars

----------------------------------------------------------------------------
(* C29: an authentication rejection that finds the counter below            *)
(* maxSocketAuthAttempts raises it by exactly 1 and makes exactly one Token *)
(* Acquirer call with the committed credentials; when that call returns,    *)
(* the fresh token is sent on the same transport, if it is still open.      *)
(* Neither step creates a transport or changes status, BoardState or the    *)
(* periodic timer.                                                          *)
C29_AuthRetryOnSameTransport ==
    [][/\ \A w \in 1 .. Len(socks) :
             (AuthRejectStep(w) /\ numAuth < maxSocketAuthAttempts)
             => /\ numAuth' = numAuth + 1
                /\ handlers' = handlers (+) SetToBag({[ws |-> w, passOk |-> roomParams.passOk]})
                /\ nextTok' = nextTok
                /\ Len(socks') = Len(socks)
                /\ socks'[w].unanswered = IF socks[w].unanswered # <<>>
                                              /\ Head(socks[w].unanswered) \notin valid
                                           THEN Tail(socks[w].unanswered)
                                           ELSE socks[w].unanswered
                /\ UNCHANGED <<websocket, status, boardState, timers, intervalRef, roomParams, store>>
                /\ emitted' = 0
       /\ \A h \in BagToSet(handlers) :
             (RetryAcquireOk(h) /\ socks[h.ws].st = "open")
             => /\ socks'[h.ws].unanswered = Append(socks[h.ws].unanswered, nextTok)
                /\ nextTok' = nextTok + 1
                /\ handlers' = handlers (-) SetToBag({h})
                /\ Len(socks') = Len(socks)
                /\ UNCHANGED <<websocket, status, boardState, timers, intervalRef, roomParams,
                               store, numAuth>>
                /\ emitted' = 0]_vars

(* After one rejection on a connected session the fresh token is on its way on the same transport *)
C29_Witness ==
    /\ status = "connected"
    /\ numAuth = 1
    /\ Len(socks) = 1
    /\ websocket = 1
    /\ socks[1].st = "open"
    /\ socks[1].settled
    /\ handlers = EmptyBag
    /\ socks[1].unanswered = <<nextTok - 1>>
    /\ nextTok - 1 # socks[1].socketKey
    /\ intervalRef \in timers

----------------------------------------------------------------------------
(* C30: a joinRoom call whose token resolution and snapshot succeeded      *)
(* eventually settles. In particular: when its transport closed before the *)
(* first frame and the transport of the reconnect has been accepted, the   *)
(* call, still pending, eventually resolves.                               *)
C30_PendingJoinResolvesAfterReconnect ==
    \A c \in 1 .. MaxJoins :
        (/\ calls[c].pc = "socket"
         /\ websocket # 0
         /\ socks[websocket].live
         /\ socks[websocket].owner = 0
         /\ socks[websocket].settled
         /\ status = "connected")
        ~> (calls[c].pc \in {"resolved", "rejected"})

----------------------------------------------------------------------------
(* C31: when the key request of an authentication retry fails, the failure *)
(* is surfaced: a joinRoom call that is still waiting for the transport of *)
(* that retry is rejected, and the status does not stay at connecting or   *)
(* connected over a transport that will never be authenticated.            *)
C31_RetryAcquireFailureSurfaces ==
    [][\A h \in BagToSet(handlers) :
          (RetryAcquireFail(h) /\ socks[h.ws].live /\ ~socks[h.ws].authed)
          => /\ status' \notin {"connecting", "connected"}
             /\ \A c \in DOMAIN calls :
                   (calls[c].pc = "socket" /\ socks[h.ws].owner = c)
                   => calls'[c].pc = "rejected"]_vars

----------------------------------------------------------------------------
(* C32: disconnect() cancels a joinRoom in flight. While a joinRoom call is *)
(* suspended at its key request or at its first snapshot and the status is  *)
(* disconnected (disconnect() was called since the call started), no step   *)
(* of that call creates a transport, leaves a timer running or changes the  *)
(* status.                                                                  *)
C32_DisconnectCancelsJoin ==
    [][\A c \in DOMAIN calls :
          (Suspended(c) /\ status = "disconnected" /\ calls'[c].pc # calls[c].pc)
          => /\ status' = "disconnected"
             /\ timers' = {}
             /\ websocket' = 0
             /\ Len(socks') = Len(socks)]_vars

----------------------------------------------------------------------------
(* C33: at most one periodic timer is active in every reachable state, also *)
(* when joinRoom calls overlap, and disconnect() leaves no timer running.   *)
C33_AtMostOneTimer ==
    [][/\ Cardinality(timers') <= 1
       /\ Disconnect => timers' = {}]_vars

----------------------------------------------------------------------------
(* C34: from disconnect() or a fatal error until the next joinRoom call,   *)
(* that is in every step that starts and ends with the status disconnected *)
(* or error while no joinRoom call is in flight, boardState is not modified *)
(* and no board-changed is emitted, also when a snapshot requested earlier *)
(* for the same room arrives.                                              *)
C34_BoardFrozenAfterDisconnect ==
    [][(/\ status \in {"disconnected", "error"}
        /\ status' = status
        /\ \A c \in DOMAIN calls : ~Suspended(c))
       => /\ boardState' = boardState
          /\ emitted' = 0]_vars

----------------------------------------------------------------------------
(* C35: every cell of boardState is in normalized form, its colors a list *)
(* of color tags as _processRawBoardState makes them, whether a snapshot  *)
(* or a goal frame wrote it last; so a snapshot that reports what the     *)
(* board holds after a goal frame emits no board-changed.                 *)
C35_CellsAlwaysNormalized ==
    boardState.defined =>
        \A i \in 1 .. Len(boardState.cells) : boardState.cells[i].colors.kind = "list"

----------------------------------------------------------------------------
(* C36: no frame is sent on a transport after its teardown: an onmessage    *)
(* that was suspended at its key request while disconnect(), a new joinRoom *)
(* or a fatal error tore the transport down does not send the key on it.    *)
C36_NoSendAfterTeardown ==
    deadSends = 0

----------------------------------------------------------------------------
(* C37: the step in which a joinRoom call rejects (key request failed,     *)
(* first snapshot failed, or fatal error frame) ends with a status other   *)
(* than connected, no periodic timer running and no transport.             *)
C37_RejectedJoinLeavesNothingRunning ==
    [][\A c \in DOMAIN calls :
          (calls[c].pc # "rejected" /\ calls'[c].pc = "rejected")
          => /\ status' # "connected"
             /\ timers' = {}
             /\ websocket' = 0]_vars

====
